---- MODULE Spec2Model ----
(***************************************************************************)
(* CPU-scheduling simulators of app/projects/fcfs/page.tsx and             *)
(* app/projects/sjf-scheduler/page.tsx: fcfs, sjfNonPreemptive and         *)
(* sjfPreemptive, executed one loop iteration per step.                    *)
(*                                                                         *)
(* Strings are sequences of one-character strings ("P10" is                *)
(* <<"P","1","0">>), so that template literals and localeCompare are       *)
(* computed.  JavaScript arrays are sequences; index i of the source is    *)
(* index i+1 here, and the "not found" index -1 is 0.                      *)
(***************************************************************************)
EXTENDS Integers, Sequences, FiniteSets, TLC

MAX_TIME_UNIT == 500

\* Bounds of the explored inputs.
MaxArrival == 2
MaxBurst == 2
MaxSrtfBurst == 3

IDLE == <<"I", "D", "L", "E">>

P1 == <<"P", "1">>
P2 == <<"P", "2">>
P10 == <<"P", "1", "0">>
PA == <<"A">>
PB == <<"B">>

\* The ids of the explored process lists.
PidSet == {P1, P2, P10}

-----------------------------------------------------------------------------
(* Library functions used by the engine. *)

\* Primary collation weight of the characters that occur in ids: digits
\* come before letters, letters are in alphabetical order.
CharRank ==
  [c \in {"0", "1", "2", "3", "4", "5", "6", "7", "8", "9", "A", "B", "P"} |->
    CASE c = "0" -> 0 [] c = "1" -> 1 [] c = "2" -> 2 [] c = "3" -> 3
      [] c = "4" -> 4 [] c = "5" -> 5 [] c = "6" -> 6 [] c = "7" -> 7
      [] c = "8" -> 8 [] c = "9" -> 9 [] c = "A" -> 10 [] c = "B" -> 11
      [] c = "P" -> 12]

\* a.localeCompare(b): character by character, a proper prefix first.
RECURSIVE localeCompare(_, _)
localeCompare(a, b) ==
  IF a = <<>> /\ b = <<>> THEN 0
  ELSE IF a = <<>> THEN -1
  ELSE IF b = <<>> THEN 1
  ELSE IF CharRank[Head(a)] < CharRank[Head(b)] THEN -1
  ELSE IF CharRank[Head(a)] > CharRank[Head(b)] THEN 1
  ELSE localeCompare(Tail(a), Tail(b))

arrivalCompare_Descending(a, b) == b.arrival - a.arrival

\* (a, b) => a.arrival - b.arrival
arrivalCompare(a, b) == a.arrival - b.arrival

sjfCompare_ArrivalFirst(a, b) ==
  IF a.arrival - b.arrival # 0 THEN a.arrival - b.arrival
  ELSE a.burst - b.burst

\* (a, b) => a.burst - b.burst || a.arrival - b.arrival
sjfCompare(a, b) ==
  IF a.burst - b.burst # 0 THEN a.burst - b.burst
  ELSE a.arrival - b.arrival

fcfsCompare_ArrivalOnly(a, b) == a.arrival - b.arrival

\* (a, b) => a.arrival - b.arrival || a.pid.localeCompare(b.pid)
fcfsCompare(a, b) ==
  IF a.arrival - b.arrival # 0 THEN a.arrival - b.arrival
  ELSE localeCompare(a.pid, b.pid)

\* (a, b) => a.pid.localeCompare(b.pid)
pidCompare(a, b) == localeCompare(a.pid, b.pid)

\* The call of the comparator function cmp that sort was given.
compareFn(cmp, a, b) ==
  CASE cmp = "fcfsCompare" -> fcfsCompare(a, b)
    [] cmp = "arrivalCompare" -> arrivalCompare(a, b)
    [] cmp = "sjfCompare" -> sjfCompare(a, b)
    [] cmp = "pidCompare" -> pidCompare(a, b)

\* One insertion of the stable sort: x goes after the elements that do not
\* compare greater than it.
Insert(sorted, x, cmp) ==
  LET k == Cardinality({i \in 1..Len(sorted) :
                          compareFn(cmp, sorted[i], x) <= 0})
  IN SubSeq(sorted, 1, k) \o <<x>> \o SubSeq(sorted, k + 1, Len(sorted))

sort_Unsorted(s, cmp) == s

\* Array.prototype.sort with the comparator cmp (stable).
sort(s, cmp) ==
  LET f[i \in 0..Len(s)] ==
        IF i = 0 THEN <<>> ELSE Insert(f[i - 1], s[i], cmp)
  IN f[Len(s)]

Pushes_Single(x, n) == IF n <= 0 THEN <<>> ELSE <<x>>

\* n pushes of x.
Pushes(x, n) == IF n <= 0 THEN <<>> ELSE [i \in 1..n |-> x]

Max(a, b) == IF a >= b THEN a ELSE b

-----------------------------------------------------------------------------
(* Activation record of an engine call. *)

NoReturn == [timeline |-> <<>>, results |-> <<>>]

\* aliased: procs is the caller's array of the caller's objects (not a copy).
\* acc, j: the accumulator and the position of timeline.reduce.
NotCalled ==
  [pc |-> "call", procs |-> <<>>, aliased |-> FALSE, k |-> 1, done |-> <<>>,
   time |-> 0, completed |-> 0, timeline |-> <<>>, acc |-> <<>>, j |-> 1,
   ret |-> NoReturn]

mapSpread_NoCopy(processes) == [array |-> processes, aliased |-> TRUE]

\* processes.map((p) => ({ ...p })): a new array of new objects.
mapSpread(processes) == [array |-> processes, aliased |-> FALSE]

\* The frame as it reads its procs: through the caller's list when procs is
\* that list itself.
Effective(f, ps) == IF f.aliased THEN [f EXCEPT !.procs = ps] ELSE f

\* The caller's list after a step that left the frame f: written through
\* when procs is that list itself.
CallerList(ps, f) == IF f.aliased THEN f.procs ELSE ps

-----------------------------------------------------------------------------
(* fcfs *)

FcfsEnter(processes) ==
  LET copy == mapSpread(processes)
  IN [NotCalled EXCEPT !.pc = "loop", !.aliased = copy.aliased,
                       !.procs = sort(copy.array, "fcfsCompare")]

FcfsIter_StartAtTime(f) ==
  LET current == f.procs[f.k]
      idle == current.arrival > f.time
      completionTime == f.time + current.burst
  IN [f EXCEPT
        !.timeline = f.timeline
                       \o Pushes(IDLE, IF idle THEN current.arrival - f.time ELSE 0)
                       \o Pushes(current.pid, current.burst),
        !.time = completionTime,
        !.done = Append(f.done,
                   [pid |-> current.pid, arrival |-> current.arrival,
                    burst |-> current.burst, completion |-> completionTime,
                    turnaround |-> completionTime - current.arrival,
                    waiting |-> completionTime - current.arrival - current.burst]),
        !.k = f.k + 1]

\* One iteration of "for (const current of procs)".
FcfsIter(f) ==
  LET current == f.procs[f.k]
      idle == current.arrival > f.time
      idleDuration == current.arrival - f.time
      startTime == IF idle THEN current.arrival ELSE f.time
      completionTime == startTime + current.burst
  IN [f EXCEPT
        !.timeline = f.timeline
                       \o Pushes(IDLE, IF idle THEN idleDuration ELSE 0)
                       \o Pushes(current.pid, current.burst),
        !.time = completionTime,
        !.done = Append(f.done,
                   [pid |-> current.pid, arrival |-> current.arrival,
                    burst |-> current.burst, completion |-> completionTime,
                    turnaround |-> completionTime - current.arrival,
                    waiting |-> completionTime - current.arrival - current.burst]),
        !.k = f.k + 1]

compressCallback_KeepAll(acc, current) == Append(acc, current)

\* The callback of timeline.reduce: current is pushed unless it equals the
\* last entry pushed.
compressCallback(acc, current) ==
  IF Len(acc) = 0 \/ acc[Len(acc)] # current
  THEN Append(acc, current)
  ELSE acc

\* One call of the callback by timeline.reduce.
FcfsCompressStep(f) ==
  [f EXCEPT !.acc = compressCallback(f.acc, f.timeline[f.j]), !.j = f.j + 1]

FcfsReturn(f) ==
  [f EXCEPT !.pc = "returned",
            !.ret = [timeline |-> f.acc, results |-> f.done]]

-----------------------------------------------------------------------------
(* sjfNonPreemptive *)

SjfNPEnter(processes) ==
  LET copy == mapSpread(processes)
  IN [NotCalled EXCEPT !.pc = "loop", !.aliased = copy.aliased,
                       !.procs = copy.array]

findIndex_NotFound(procs, current) == 0

\* procs.findIndex(p => p.pid === current.pid && p.arrival === current.arrival
\*                      && p.burst === current.burst); 0 when there is none.
findIndex(procs, current) ==
  LET hits == {i \in 1..Len(procs) :
                 /\ procs[i].pid = current.pid
                 /\ procs[i].arrival = current.arrival
                 /\ procs[i].burst = current.burst}
  IN IF hits = {} THEN 0 ELSE CHOOSE i \in hits : \A j \in hits : i <= j

\* procs.filter(p => p.arrival <= time && p.burst >= 0)
SjfNPAvailable(f) ==
  SelectSeq(f.procs, LAMBDA p : p.arrival <= f.time /\ p.burst >= 0)

\* available.sort(...); current = available[0]
SjfNPCurrent(f) == sort(SjfNPAvailable(f), "sjfCompare")[1]

\* One iteration of "while (completed < n)".
SjfNPIter(f) ==
  LET available == SjfNPAvailable(f)
      unarrived ==
        sort(SelectSeq(f.procs, LAMBDA p : p.burst > 0 /\ p.arrival > f.time),
             "arrivalCompare")
      current == SjfNPCurrent(f)
      startTime == Max(f.time, current.arrival)
      endTime == startTime + current.burst
      procIndex == findIndex(f.procs, current)
  IN IF Len(available) = 0
     THEN IF Len(unarrived) > 0
          THEN [f EXCEPT !.time = unarrived[1].arrival]
          ELSE [f EXCEPT !.pc = "exit"]
     ELSE [f EXCEPT
             !.time = endTime,
             !.done = Append(f.done,
                        [pid |-> current.pid, arrival |-> current.arrival,
                         burst |-> current.burst, completion |-> endTime,
                         turnaround |-> endTime - current.arrival,
                         waiting |-> endTime - current.arrival - current.burst]),
             !.procs = IF procIndex # 0
                       THEN [f.procs EXCEPT ![procIndex].burst = -1]
                       ELSE f.procs,
             !.completed = f.completed + 1]

ganttOf_NoIdle(done) ==
  LET g[i \in 0..Len(done)] ==
        IF i = 0 THEN <<>>
        ELSE g[i - 1] \o Pushes(done[i].pid, done[i].burst)
  IN g[Len(done)]

\* done.forEach(...): the chart rebuilt from the completion records.
ganttOf(done) ==
  LET g[i \in 0..Len(done)] ==
        IF i = 0 THEN [timeline |-> <<>>, currentTime |-> 0]
        ELSE LET p == done[i]
                 start == p.completion - p.burst
                 prev == g[i - 1]
             IN [timeline |->
                   prev.timeline
                     \o Pushes(IDLE, IF start > prev.currentTime
                                     THEN start - prev.currentTime ELSE 0)
                     \o Pushes(p.pid, p.burst),
                 currentTime |-> p.completion]
  IN g[Len(done)].timeline

SjfNPReturn(f) ==
  LET timeline == ganttOf(f.done)
  IN [f EXCEPT !.pc = "returned", !.timeline = timeline,
               !.ret = [timeline |-> timeline, results |-> f.done]]

-----------------------------------------------------------------------------
(* sjfPreemptive *)

SrtfEnter(processes) ==
  [NotCalled EXCEPT
     !.pc = "loop",
     !.procs = [i \in 1..Len(processes) |->
                  [pid |-> processes[i].pid, arrival |-> processes[i].arrival,
                   burst |-> processes[i].burst,
                   remaining |-> processes[i].burst,
                   completion |-> 0, waiting |-> 0, turnaround |-> 0]]]

SrtfSelect_NoArrivalCheck(proc, time) ==
  LET scan[i \in 0..Len(proc)] ==
        IF i = 0 THEN [idx |-> 0, min |-> 0]
        ELSE LET prev == scan[i - 1]
             IN IF /\ proc[i].remaining > 0
                   /\ (prev.idx = 0 \/ proc[i].remaining < prev.min)
                THEN [idx |-> i, min |-> proc[i].remaining]
                ELSE prev
  IN scan[Len(proc)].idx

SrtfSelect_StrictArrival(proc, time) ==
  LET scan[i \in 0..Len(proc)] ==
        IF i = 0 THEN [idx |-> 0, min |-> 0]
        ELSE LET prev == scan[i - 1]
             IN IF /\ proc[i].arrival < time
                   /\ proc[i].remaining > 0
                   /\ (prev.idx = 0 \/ proc[i].remaining < prev.min)
                THEN [idx |-> i, min |-> proc[i].remaining]
                ELSE prev
  IN scan[Len(proc)].idx

SrtfSelect_KeepStarted(proc, time) ==
  LET started == {i \in 1..Len(proc) :
                    proc[i].remaining > 0 /\ proc[i].remaining < proc[i].burst}
      scan[i \in 0..Len(proc)] ==
        IF i = 0 THEN [idx |-> 0, min |-> 0]
        ELSE LET prev == scan[i - 1]
             IN IF /\ proc[i].arrival <= time
                   /\ proc[i].remaining > 0
                   /\ (prev.idx = 0 \/ proc[i].remaining < prev.min)
                THEN [idx |-> i, min |-> proc[i].remaining]
                ELSE prev
  IN IF started # {} THEN CHOOSE i \in started : TRUE
     ELSE scan[Len(proc)].idx

\* The scan "for (let i = 0; i < n; i++)": the index selected, 0 for none.
\* min is Infinity exactly as long as idx is "none".
SrtfSelect(proc, time) ==
  LET scan[i \in 0..Len(proc)] ==
        IF i = 0 THEN [idx |-> 0, min |-> 0]
        ELSE LET prev == scan[i - 1]
             IN IF /\ proc[i].arrival <= time
                   /\ proc[i].remaining > 0
                   /\ (prev.idx = 0 \/ proc[i].remaining < prev.min)
                THEN [idx |-> i, min |-> proc[i].remaining]
                ELSE prev
  IN scan[Len(proc)].idx

\* One iteration of "while (completed < n)": one time unit.
SrtfIter(f) ==
  LET idx == SrtfSelect(f.procs, f.time)
      remaining == f.procs[idx].remaining - 1
      time == f.time + 1
      turnaround == time - f.procs[idx].arrival
  IN IF idx = 0
     THEN [f EXCEPT !.timeline = Append(f.timeline, IDLE), !.time = time]
     ELSE [f EXCEPT
             !.timeline = Append(f.timeline, f.procs[idx].pid),
             !.time = time,
             !.completed = IF remaining = 0 THEN f.completed + 1
                           ELSE f.completed,
             !.procs = IF remaining = 0
                       THEN [f.procs EXCEPT
                               ![idx].remaining = remaining,
                               ![idx].completion = time,
                               ![idx].turnaround = turnaround,
                               ![idx].waiting = turnaround - f.procs[idx].burst]
                       ELSE [f.procs EXCEPT ![idx].remaining = remaining]]

SrtfReturn(f) ==
  [f EXCEPT !.pc = "returned",
            !.ret = [timeline |-> f.timeline, results |-> f.procs]]

-----------------------------------------------------------------------------
(* The engine as a function of its argument: the steps run to the return. *)

Enter(a, processes) ==
  CASE a = "fcfs" -> FcfsEnter(processes)
    [] a = "sjfNonPreemptive" -> SjfNPEnter(processes)
    [] a = "sjfPreemptive" -> SrtfEnter(processes)

Step(a, f) ==
  CASE a = "fcfs" ->
         IF f.k <= Len(f.procs) THEN FcfsIter(f)
         ELSE IF f.j <= Len(f.timeline) THEN FcfsCompressStep(f)
         ELSE FcfsReturn(f)
    [] a = "sjfNonPreemptive" ->
         IF f.pc = "loop" /\ f.completed < Len(f.procs)
         THEN SjfNPIter(f) ELSE SjfNPReturn(f)
    [] a = "sjfPreemptive" ->
         IF f.completed < Len(f.procs) THEN SrtfIter(f) ELSE SrtfReturn(f)

\* The next step of a call on the caller's list ps.
Advance(a, f, ps) ==
  IF f.pc = "call" THEN Enter(a, ps) ELSE Step(a, Effective(f, ps))

RECURSIVE RunFrom(_, _)
RunFrom(a, f) == IF f.pc = "returned" THEN f.ret ELSE RunFrom(a, Step(a, f))

RECURSIVE FinalFrame(_, _)
\* The activation record of a call at its return.
FinalFrame(a, f) == IF f.pc = "returned" THEN f ELSE FinalFrame(a, Step(a, f))

fcfs(processes) == RunFrom("fcfs", FcfsEnter(processes))
sjfNonPreemptive(processes) ==
  RunFrom("sjfNonPreemptive", SjfNPEnter(processes))
sjfPreemptive(processes) == RunFrom("sjfPreemptive", SrtfEnter(processes))

-----------------------------------------------------------------------------
(* The state machine: an engine call on an argument list, and a second   *)
(* call that the two-call specification runs interleaved with it.        *)

VARIABLES
  alg,         \* the function called
  processes,   \* its argument, the caller's list
  frame,       \* its activation record
  alg2,        \* the function of the second call
  processes2,  \* the argument of the second call
  shared,      \* both calls were given the same list object
  frame2,      \* the activation record of the second call
  page         \* the state of a simulator page

vars == <<alg, processes, frame, alg2, processes2, shared, frame2, page>>

call2 == <<alg2, processes2, shared, frame2>>

Algorithms == {"fcfs", "sjfNonPreemptive", "sjfPreemptive"}

\* The lists of distinct ids.
PidLists ==
  {pl \in UNION {[1..n -> PidSet] : n \in 0..Cardinality(PidSet)} :
     \A i, j \in 1..Len(pl) : i # j => pl[i] # pl[j]}

\* The lists of ids in the order the page numbers them.
PagePidLists ==
  {pl \in PidLists : pl = SubSeq(<<P1, P2, P10>>, 1, Len(pl))}

\* The lists with the ids pl, arrivals up to maxArrival and bursts from 1
\* to maxBurst.
ListsWithin(pl, maxArrival, maxBurst) ==
  IF Len(pl) = 0 THEN {<<>>}
  ELSE {[i \in 1..Len(pl) |->
           [pid |-> pl[i], arrival |-> ab[i][1], burst |-> ab[i][2]]] :
          ab \in [1..Len(pl) -> (0..maxArrival) \X (1..maxBurst)]}

ListsOver(pl) == ListsWithin(pl, MaxArrival, MaxBurst)

BoundedInputs == UNION {ListsOver(pl) : pl \in PidLists}

ProcA == [pid |-> PA, arrival |-> 0, burst |-> 5]
ProcB == [pid |-> PB, arrival |-> 2, burst |-> 2]
ProcGap == [pid |-> P1, arrival |-> 5, burst |-> 3]
ProcMax == [pid |-> P1, arrival |-> MAX_TIME_UNIT, burst |-> MAX_TIME_UNIT]

\* The worked examples.
ScenarioInputs == {<<ProcA, ProcB>>, <<ProcB, ProcA>>, <<ProcGap>>}

Inputs == BoundedInputs \cup ScenarioInputs

\* The preconditions the caller guarantees.
ValidInput(ps) ==
  /\ Len(ps) >= 1
  /\ \A i \in 1..Len(ps) :
       /\ Len(ps[i].pid) > 0
       /\ 0 <= ps[i].arrival /\ ps[i].arrival <= MAX_TIME_UNIT
       /\ 1 <= ps[i].burst /\ ps[i].burst <= MAX_TIME_UNIT
  /\ \A i, j \in 1..Len(ps) : i # j => ps[i].pid # ps[j].pid

\* No simulator page: the engine functions are called directly.
NoPage ==
  [kind |-> "none", mode |-> "preemptive", rows |-> <<>>, results |-> <<>>,
   timeline |-> <<>>, error |-> [text |-> "", pid |-> <<>>]]

NoCall2 ==
  /\ alg2 = "fcfs"
  /\ processes2 = <<>>
  /\ shared = FALSE
  /\ frame2 = NotCalled

Init ==
  /\ alg \in Algorithms
  /\ processes \in Inputs
  /\ frame = NotCalled
  /\ NoCall2
  /\ page = NoPage

CallFcfs ==
  /\ alg = "fcfs" /\ frame.pc = "call"
  /\ frame' = FcfsEnter(processes)
  /\ processes' = CallerList(processes, frame')
  /\ UNCHANGED <<alg, call2, page>>

FcfsLoop ==
  /\ alg = "fcfs" /\ frame.pc = "loop" /\ frame.k <= Len(frame.procs)
  /\ frame' = FcfsIter(Effective(frame, processes))
  /\ processes' = CallerList(processes, frame')
  /\ UNCHANGED <<alg, call2, page>>

FcfsCompress ==
  /\ alg = "fcfs" /\ frame.pc = "loop" /\ ~(frame.k <= Len(frame.procs))
  /\ frame.j <= Len(frame.timeline)
  /\ frame' = FcfsCompressStep(Effective(frame, processes))
  /\ processes' = CallerList(processes, frame')
  /\ UNCHANGED <<alg, call2, page>>

FcfsDone ==
  /\ alg = "fcfs" /\ frame.pc = "loop" /\ ~(frame.k <= Len(frame.procs))
  /\ ~(frame.j <= Len(frame.timeline))
  /\ frame' = FcfsReturn(Effective(frame, processes))
  /\ processes' = CallerList(processes, frame')
  /\ UNCHANGED <<alg, call2, page>>

CallSjfNP ==
  /\ alg = "sjfNonPreemptive" /\ frame.pc = "call"
  /\ frame' = SjfNPEnter(processes)
  /\ processes' = CallerList(processes, frame')
  /\ UNCHANGED <<alg, call2, page>>

SjfNPLoop ==
  /\ alg = "sjfNonPreemptive" /\ frame.pc = "loop"
  /\ frame.completed < Len(frame.procs)
  /\ frame' = SjfNPIter(Effective(frame, processes))
  /\ processes' = CallerList(processes, frame')
  /\ UNCHANGED <<alg, call2, page>>

SjfNPDone ==
  /\ alg = "sjfNonPreemptive"
  /\ frame.pc \in {"loop", "exit"}
  /\ ~(frame.pc = "loop" /\ frame.completed < Len(frame.procs))
  /\ frame' = SjfNPReturn(Effective(frame, processes))
  /\ processes' = CallerList(processes, frame')
  /\ UNCHANGED <<alg, call2, page>>

CallSrtf ==
  /\ alg = "sjfPreemptive" /\ frame.pc = "call"
  /\ frame' = SrtfEnter(processes)
  /\ processes' = CallerList(processes, frame')
  /\ UNCHANGED <<alg, call2, page>>

SrtfLoop ==
  /\ alg = "sjfPreemptive" /\ frame.pc = "loop"
  /\ frame.completed < Len(frame.procs)
  /\ frame' = SrtfIter(Effective(frame, processes))
  /\ processes' = CallerList(processes, frame')
  /\ UNCHANGED <<alg, call2, page>>

SrtfDone ==
  /\ alg = "sjfPreemptive" /\ frame.pc = "loop"
  /\ ~(frame.completed < Len(frame.procs))
  /\ frame' = SrtfReturn(Effective(frame, processes))
  /\ processes' = CallerList(processes, frame')
  /\ UNCHANGED <<alg, call2, page>>

Next ==
  \/ CallFcfs \/ FcfsLoop \/ FcfsCompress \/ FcfsDone
  \/ CallSjfNP \/ SjfNPLoop \/ SjfNPDone
  \/ CallSrtf \/ SrtfLoop \/ SrtfDone

Spec == Init /\ [][Next]_vars

\* The boundary case alone: the single process with arrival = burst =
\* MAX_TIME_UNIT, under each algorithm.
InitMax ==
  /\ alg \in Algorithms
  /\ processes = <<ProcMax>>
  /\ frame = NotCalled
  /\ NoCall2
  /\ page = NoPage

SpecMax == InitMax /\ [][Next]_vars

Returned == frame.pc = "returned"

-----------------------------------------------------------------------------
(* Notions the properties are stated in. *)

\* The (occupant, duration) segments a timeline list denotes: its maximal
\* runs of equal adjacent entries, each entry counting for one slot.
SegmentsOf(tl) ==
  LET seg[i \in 0..Len(tl)] ==
        IF i = 0 THEN <<>>
        ELSE LET prev == seg[i - 1]
             IN IF Len(prev) > 0 /\ prev[Len(prev)].occupant = tl[i]
                THEN [prev EXCEPT ![Len(prev)].duration = @ + 1]
                ELSE Append(prev, [occupant |-> tl[i], duration |-> 1])
  IN seg[Len(tl)]

SumDurations(segs) ==
  LET sum[i \in 0..Len(segs)] ==
        IF i = 0 THEN 0 ELSE sum[i - 1] + segs[i].duration
  IN sum[Len(segs)]

LastCompletion(results) ==
  LET m[i \in 0..Len(results)] ==
        IF i = 0 THEN 0 ELSE Max(m[i - 1], results[i].completion)
  IN m[Len(results)]

ResultOf(results, pid) ==
  CHOOSE r \in {results[i] : i \in 1..Len(results)} : r.pid = pid

PermutationsOf(s) ==
  {[i \in 1..Len(s) |-> s[p[i]]] : p \in Permutations(1..Len(s))}

\* a comes before b in the order (burst or remaining time, arrival, id);
\* ka and kb are the burst or remaining times.
TieBreakLeq(ka, a, kb, b) ==
  \/ ka < kb
  \/ ka = kb /\ a.arrival < b.arrival
  \/ ka = kb /\ a.arrival = b.arrival /\ localeCompare(a.pid, b.pid) <= 0

-----------------------------------------------------------------------------
(* Properties. *)

\* C1: for every valid input and each of the three algorithms, every
\* returned result has turnaround = completion - arrival,
\* waiting = turnaround - burst, waiting >= 0 and turnaround >= burst
\* (completion >= arrival + burst).
C1_MetricsConsistent ==
  (Returned /\ ValidInput(processes)) =>
    \A i \in 1..Len(frame.ret.results) :
      LET r == frame.ret.results[i]
      IN /\ r.turnaround = r.completion - r.arrival
         /\ r.waiting = r.turnaround - r.burst
         /\ r.waiting >= 0
         /\ r.turnaround >= r.burst
         /\ r.completion >= r.arrival + r.burst

\* Three results have been returned, one of a process that had to wait
\* and one of a process that started after an idle gap.
C1_Witness ==
  /\ Returned /\ ValidInput(processes)
  /\ Len(frame.ret.results) = 3
  /\ \E i \in 1..3 : frame.ret.results[i].waiting > 0
  /\ \E i \in 1..Len(frame.ret.timeline) : frame.ret.timeline[i] = IDLE

\* C2: for every valid input and each algorithm, the durations of the
\* segments of the returned timeline sum to the completion time of the
\* last-finishing process.
C2_TimelineCoversLastCompletion ==
  (Returned /\ ValidInput(processes)) =>
    SumDurations(SegmentsOf(frame.ret.timeline))
      = LastCompletion(frame.ret.results)

\* C3: no two adjacent entries of the timeline returned by any of the
\* three strategies have the same occupant.
C3_ReturnedTimelineCompressed ==
  (Returned /\ ValidInput(processes)) =>
    \A i \in 1..(Len(frame.ret.timeline) - 1) :
      frame.ret.timeline[i] # frame.ret.timeline[i + 1]

\* C4: the compression step turns each maximal run of the unit trace into
\* one segment whose duration is the length of the run, so that the
\* durations sum to the length of the unit trace.
C4_CompressKeepsRunLengths ==
  (Returned /\ alg = "fcfs") =>
    /\ SegmentsOf(frame.ret.timeline) = SegmentsOf(frame.timeline)
    /\ SumDurations(SegmentsOf(frame.ret.timeline)) = Len(frame.timeline)

C6_FcfsOrderIndependent ==
  (Returned /\ alg = "fcfs" /\ ValidInput(processes)) =>
    /\ \A q \in PermutationsOf(processes) : fcfs(q) = frame.ret
    /\ \A i \in 1..(Len(frame.ret.results) - 1) :
         frame.ret.results[i].arrival = frame.ret.results[i + 1].arrival =>
           localeCompare(frame.ret.results[i].pid,
                         frame.ret.results[i + 1].pid) < 0

\* fcfs has returned for a list of three whose first two processes arrive
\* together and are listed against the id order.
C6_Witness ==
  /\ Returned /\ alg = "fcfs" /\ ValidInput(processes)
  /\ Len(processes) = 3
  /\ processes[1].arrival = processes[2].arrival
  /\ localeCompare(processes[1].pid, processes[2].pid) > 0

\* C7: SRTF on A (arrival 0, burst 5) and B (arrival 2, burst 2), in either
\* list order, gives the unit trace A,A,B,B,A,A,A; B completes at 4 with
\* turnaround 2 and waiting 0, A at 7 with turnaround 7 and waiting 2.
C7_SrtfPreemptionExample ==
  (Returned /\ alg = "sjfPreemptive"
     /\ processes \in {<<ProcA, ProcB>>, <<ProcB, ProcA>>}) =>
    /\ frame.ret.timeline = <<PA, PA, PB, PB, PA, PA, PA>>
    /\ Len(frame.ret.results) = 2
    /\ LET a == ResultOf(frame.ret.results, PA)
           b == ResultOf(frame.ret.results, PB)
       IN /\ b.completion = 4 /\ b.turnaround = 2 /\ b.waiting = 0
          /\ a.completion = 7 /\ a.turnaround = 7 /\ a.waiting = 2

\* SRTF has returned for the list in which B comes first.
C7_Witness ==
  /\ Returned /\ alg = "sjfPreemptive"
  /\ processes = <<ProcB, ProcA>>
  /\ Len(frame.ret.timeline) = 7

\* C8: in SJF-NP the process selected among the arrived, uncompleted ones
\* is first in the order (burst, arrival, id), whatever the order of the
\* input list.
C8_SjfNPTieBreakById ==
  (/\ alg = "sjfNonPreemptive" /\ ValidInput(processes)
   /\ frame.pc = "loop" /\ frame.completed < Len(frame.procs)
   /\ Len(SjfNPAvailable(frame)) > 0) =>
    \A i \in 1..Len(SjfNPAvailable(frame)) :
      TieBreakLeq(SjfNPCurrent(frame).burst, SjfNPCurrent(frame),
                  SjfNPAvailable(frame)[i].burst, SjfNPAvailable(frame)[i])

\* C9: in SRTF the unit goes to the ready process that is first in the
\* order (remaining time, arrival, id), whatever the order of the input
\* list.
C9_SrtfTieBreakByArrivalThenId ==
  (/\ alg = "sjfPreemptive" /\ ValidInput(processes)
   /\ frame.pc = "loop" /\ frame.completed < Len(frame.procs)
   /\ SrtfSelect(frame.procs, frame.time) # 0) =>
    LET sel == frame.procs[SrtfSelect(frame.procs, frame.time)]
    IN \A j \in 1..Len(frame.procs) :
         (frame.procs[j].arrival <= frame.time
            /\ frame.procs[j].remaining > 0) =>
           TieBreakLeq(sel.remaining, sel,
                       frame.procs[j].remaining, frame.procs[j])

\* C10: called with an empty process list, the engine fails with an
\* InvalidInput error instead of returning an empty timeline and empty
\* results.
C10_EmptyListRejected ==
  processes = <<>> => frame.pc # "returned"

SumBurst(ps) ==
  LET sum[i \in 0..Len(ps)] == IF i = 0 THEN 0 ELSE sum[i - 1] + ps[i].burst
  IN sum[Len(ps)]

MaxArrivalOf(ps) ==
  LET m[i \in 0..Len(ps)] == IF i = 0 THEN 0 ELSE Max(m[i - 1], ps[i].arrival)
  IN m[Len(ps)]

\* C11: for every valid input of n processes and each algorithm, the clock,
\* every completion time and the length of the unit trace never exceed
\* sum(burst) + max(arrival), which is at most (n + 1) * MAX_TIME_UNIT.
C11_ClockBounded ==
  ValidInput(processes) =>
    LET bound == SumBurst(processes) + MaxArrivalOf(processes)
    IN /\ frame.time <= bound
       /\ Len(frame.timeline) <= bound
       /\ \A i \in 1..Len(frame.done) : frame.done[i].completion <= bound
       /\ \A i \in 1..Len(frame.ret.results) :
            frame.ret.results[i].completion <= bound
       /\ bound <= (Len(processes) + 1) * MAX_TIME_UNIT

\* A call on several processes has returned with its last completion
\* exactly at sum(burst) + max(arrival).
C11_Witness ==
  /\ Returned /\ ValidInput(processes) /\ Len(processes) >= 2
  /\ LastCompletion(frame.ret.results)
       = SumBurst(processes) + MaxArrivalOf(processes)

\* C12: for the single process with arrival = burst = MAX_TIME_UNIT each
\* algorithm returns completion 2 * MAX_TIME_UNIT, turnaround MAX_TIME_UNIT,
\* waiting 0 and a timeline that covers exactly 2 * MAX_TIME_UNIT time
\* units (each entry of the returned list counting for one slot).
C12_MaxBoundary ==
  (Returned /\ processes = <<ProcMax>>) =>
    /\ Len(frame.ret.results) = 1
    /\ frame.ret.results[1].completion = 2 * MAX_TIME_UNIT
    /\ frame.ret.results[1].turnaround = MAX_TIME_UNIT
    /\ frame.ret.results[1].waiting = 0
    /\ Len(frame.ret.timeline) = 2 * MAX_TIME_UNIT

\* C13: no step of an engine call changes the caller's list or the objects
\* in it, and once a call has returned, a second call on the same list
\* returns the same output.
C13_InputNotMutated ==
  /\ [][processes' = processes]_vars
  /\ [](Returned => RunFrom(alg, Enter(alg, processes)) = frame.ret)

\* sjfNonPreemptive has returned after marking every entry of its own
\* procs with burst -1, on a list of several processes.
C13_Witness ==
  /\ Returned /\ alg = "sjfNonPreemptive" /\ Len(processes) >= 2
  /\ \A i \in 1..Len(frame.procs) : frame.procs[i].burst = -1
  /\ \A i \in 1..Len(processes) : processes[i].burst >= 1

----------------------------------------------------------------------------
(* Two calls whose steps interleave. *)

ParPids == {P1, P2}

\* The lists the first call is given.
ParInputs ==
  UNION {ListsOver(pl) :
           pl \in {q \in PidLists : \A i \in 1..Len(q) : q[i] \in ParPids}}

\* The lists the second call is given when it is not given the same one.
ParOtherInputs == {<<ProcB, ProcA>>}

InitPar ==
  /\ alg \in Algorithms
  /\ alg2 \in Algorithms
  /\ processes \in ParInputs
  /\ shared \in BOOLEAN
  /\ processes2 \in (IF shared THEN {processes} ELSE ParOtherInputs)
  /\ frame = NotCalled
  /\ frame2 = NotCalled
  /\ page = NoPage

\* A step of the first call.
ParStep1 ==
  /\ frame.pc # "returned"
  /\ frame' = Advance(alg, frame, processes)
  /\ processes' = CallerList(processes, frame')
  /\ processes2' = IF shared THEN processes' ELSE processes2
  /\ UNCHANGED <<alg, alg2, shared, frame2, page>>

\* A step of the second call.
ParStep2 ==
  /\ frame2.pc # "returned"
  /\ frame2' = Advance(alg2, frame2, processes2)
  /\ processes2' = CallerList(processes2, frame2')
  /\ processes' = IF shared THEN processes2' ELSE processes
  /\ UNCHANGED <<alg, alg2, shared, frame, page>>

NextPar == ParStep1 \/ ParStep2

SpecPar == InitPar /\ [][NextPar]_vars

\* C14: when the steps of two calls interleave, on the same list or on
\* different lists, with the same or different algorithms, each call returns
\* what it returns when it runs alone on its list.
C14_InterleavedCallsIndependent ==
  /\ frame.pc = "returned" =>
       frame.ret = RunFrom(alg, Enter(alg, processes))
  /\ frame2.pc = "returned" =>
       frame2.ret = RunFrom(alg2, Enter(alg2, processes2))

\* Two calls of sjfNonPreemptive on the same list of two processes are both
\* under way, each having scheduled its first process.
C14_Witness ==
  /\ shared /\ alg = "sjfNonPreemptive" /\ alg2 = "sjfNonPreemptive"
  /\ Len(processes) = 2
  /\ frame.pc = "loop" /\ Len(frame.done) = 1
  /\ frame2.pc = "loop" /\ Len(frame2.done) = 1

----------------------------------------------------------------------------
(* sjfPreemptive alone, with longer bursts so that preemptions occur. *)

SrtfInputs ==
  UNION {ListsWithin(pl, MaxArrival, MaxSrtfBurst) : pl \in PagePidLists}

InitSrtf ==
  /\ alg = "sjfPreemptive"
  /\ processes \in SrtfInputs
  /\ frame = NotCalled
  /\ NoCall2
  /\ page = NoPage

NextSrtf == CallSrtf \/ SrtfLoop \/ SrtfDone

SpecSrtf == InitSrtf /\ [][NextSrtf]_vars

\* The processes of proc that are ready at time t.
ReadySet(proc, t) ==
  {i \in 1..Len(proc) : proc[i].arrival <= t /\ proc[i].remaining > 0}

\* The step is one time unit of sjfPreemptive.
SrtfUnit ==
  /\ alg = "sjfPreemptive" /\ frame.pc = "loop"
  /\ frame'.pc = "loop" /\ frame'.time = frame.time + 1

\* The unit of the step goes to a ready process of minimal remaining time,
\* to IDLE when none is ready.
SrtfUnitToMinimal ==
  LET t == frame.time
      proc == frame.procs
      ready == ReadySet(proc, t)
  IN /\ Len(frame'.timeline) = t + 1
     /\ ready = {} => frame'.timeline[t + 1] = IDLE
     /\ ready # {} =>
          \E i \in ready :
            /\ frame'.timeline[t + 1] = proc[i].pid
            /\ frame'.procs[i].remaining = proc[i].remaining - 1
            /\ \A j \in ready : proc[i].remaining <= proc[j].remaining

\* Process i arrives at the time t of the step with a burst smaller than
\* what the process that ran at t - 1 has left.
ArrivesShorter(i) ==
  LET t == frame.time
      proc == frame.procs
  IN /\ t >= 1
     /\ proc[i].arrival = t
     /\ \E q \in 1..Len(proc) :
          /\ frame.timeline[t] = proc[q].pid
          /\ proc[i].burst < proc[q].remaining

\* C15 (as stated): at every time unit t of sjfPreemptive the unit goes to
\* a ready process whose remaining time is minimal over the ready set, and
\* every process that arrives at t with a burst strictly smaller than the
\* remaining time of the process that ran at t - 1 runs at unit t.
C15_SrtfReevaluatesEveryUnit ==
  [][SrtfUnit =>
       /\ SrtfUnitToMinimal
       /\ \A i \in 1..Len(frame.procs) :
            ArrivesShorter(i) =>
              frame'.timeline[frame.time + 1] = frame.procs[i].pid]_vars

\* C15 (amended): at every time unit t of sjfPreemptive the unit goes to a
\* ready process whose remaining time is minimal over the ready set, and a
\* process that arrives at t with a burst strictly smaller than the
\* remaining time of the process that ran at t - 1 and than the burst of
\* every other process arriving at t runs at unit t.
C15_SrtfReevaluatesEveryUnitAmended ==
  [][SrtfUnit =>
       /\ SrtfUnitToMinimal
       /\ \A i \in 1..Len(frame.procs) :
            (/\ ArrivesShorter(i)
             /\ \A j \in 1..Len(frame.procs) :
                  (j # i /\ frame.procs[j].arrival = frame.time) =>
                    frame.procs[i].burst < frame.procs[j].burst) =>
              frame'.timeline[frame.time + 1] = frame.procs[i].pid]_vars

\* A process that arrived at t has just run unit t in place of the process
\* that ran unit t - 1, which has more left than the newcomer's burst.
C15_Witness ==
  /\ alg = "sjfPreemptive" /\ frame.pc = "loop" /\ frame.time >= 2
  /\ \E i, q \in 1..Len(frame.procs) :
       /\ i # q
       /\ frame.timeline[frame.time] = frame.procs[i].pid
       /\ frame.timeline[frame.time - 1] = frame.procs[q].pid
       /\ frame.procs[i].arrival = frame.time - 1
       /\ frame.procs[i].burst < frame.procs[q].remaining

----------------------------------------------------------------------------
(* sjfNonPreemptive: selection, runs and idle jumps. *)

\* The ids of the completion records done.
PidsOf(done) == {done[i].pid : i \in 1..Len(done)}

\* The input processes that have arrived by time t and have no completion
\* record in done.
ArrivedPending(ps, done, t) ==
  {i \in 1..Len(ps) : ps[i].arrival <= t /\ ps[i].pid \notin PidsOf(done)}

\* The input processes that have no completion record in done.
Uncompleted(ps, done) ==
  {i \in 1..Len(ps) : ps[i].pid \notin PidsOf(done)}

\* An iteration of the loop of sjfNonPreemptive on a valid input.
SjfNPStep ==
  /\ alg = "sjfNonPreemptive" /\ ValidInput(processes)
  /\ frame.pc = "loop" /\ frame.completed < Len(frame.procs)
  /\ frame' # frame

\* C16: at every decision point of SJF-NP the process started has the
\* minimum burst among the processes that have arrived (arrival <= time)
\* and are not yet completed.
C16_SjfNPStartsMinimumBurst ==
  [][(SjfNPStep /\ Len(frame'.done) = Len(frame.done) + 1) =>
       LET started == frame'.done[Len(frame'.done)]
           pending == ArrivedPending(processes, frame.done, frame.time)
       IN /\ \E i \in pending :
               /\ processes[i].pid = started.pid
               /\ processes[i].burst = started.burst
          /\ \A j \in pending : started.burst <= processes[j].burst]_vars

\* The process started last was chosen over a longer one that arrived
\* before it and was waiting when it started.
C16_Witness ==
  /\ alg = "sjfNonPreemptive" /\ frame.pc = "loop" /\ Len(frame.done) >= 1
  /\ LET d == frame.done[Len(frame.done)]
     IN \E i \in Uncompleted(processes, frame.done) :
          /\ processes[i].arrival < d.arrival
          /\ processes[i].arrival <= d.completion - d.burst
          /\ processes[i].burst > d.burst

\* The positions of the timeline tl that pid occupies.
UnitsOf(tl, pid) == {u \in 1..Len(tl) : tl[u] = pid}

\* C17: in the timeline of SJF-NP every process occupies exactly the burst
\* units of the interval [completion - burst, completion), which starts no
\* earlier than its arrival, and nothing else falls inside that interval.
C17_SjfNPNeverPreempts ==
  (Returned /\ alg = "sjfNonPreemptive" /\ ValidInput(processes)) =>
    \A i \in 1..Len(frame.ret.results) :
      LET r == frame.ret.results[i]
      IN /\ r.completion - r.burst >= r.arrival
         /\ UnitsOf(frame.ret.timeline, r.pid)
              = (r.completion - r.burst + 1)..r.completion
         /\ r.completion <= Len(frame.ret.timeline)

\* SJF-NP has returned, and a shorter process arrived while a longer one
\* was running.
C17_Witness ==
  /\ Returned /\ alg = "sjfNonPreemptive" /\ ValidInput(processes)
  /\ \E i, j \in 1..Len(frame.ret.results) :
       LET a == frame.ret.results[i]
           b == frame.ret.results[j]
       IN /\ b.arrival > a.completion - a.burst
          /\ b.arrival < a.completion
          /\ b.burst < a.burst

\* The least arrival among the processes of ps with index in S.
MinArrival(ps, S) ==
  CHOOSE t \in {ps[i].arrival : i \in S} :
    \A i \in S : t <= ps[i].arrival

\* The time at which the k-th completion record of done ends, 0 for k = 0.
EndOf(done, k) == IF k = 0 THEN 0 ELSE done[k].completion

\* C18: when no uncompleted process has arrived at the current time, SJF-NP
\* advances the clock in one step to the minimum arrival among the
\* uncompleted processes; the timeline holds one IDLE run of exactly that
\* gap, and the next process starts at that arrival time.
C18_SjfNPIdleJump ==
  /\ [][(/\ SjfNPStep
         /\ ArrivedPending(processes, frame.done, frame.time) = {}) =>
          /\ frame'.time
               = MinArrival(processes, Uncompleted(processes, frame.done))
          /\ frame'.time > frame.time
          /\ frame'.done = frame.done
          /\ frame'.pc = "loop"]_vars
  /\ []((Returned /\ alg = "sjfNonPreemptive" /\ ValidInput(processes)) =>
          \A k \in 1..Len(frame.ret.results) :
            LET r == frame.ret.results[k]
                start == r.completion - r.burst
                before == EndOf(frame.ret.results, k - 1)
            IN /\ start >= before
               /\ start > before => start = r.arrival
               /\ \A u \in (before + 1)..start : frame.ret.timeline[u] = IDLE)

\* SJF-NP has returned after an idle jump between two processes.
C18_Witness ==
  /\ Returned /\ alg = "sjfNonPreemptive" /\ ValidInput(processes)
  /\ \E k \in 2..Len(frame.ret.results) :
       LET r == frame.ret.results[k]
       IN r.completion - r.burst > frame.ret.results[k - 1].completion

----------------------------------------------------------------------------
(* fcfs: order and start times. *)

\* a comes before b in ascending (arrival, id) order.
ArrivalIdLeq(a, b) ==
  \/ a.arrival < b.arrival
  \/ a.arrival = b.arrival /\ localeCompare(a.pid, b.pid) <= 0

\* C19: FCFS runs the processes in ascending (arrival, id) order; the k-th
\* starts at max(completion of the (k-1)-th, its arrival), with time 0
\* before the first; the unit trace has IDLE units, arrival - time of them,
\* exactly when arrival > time; the completion is the start plus the burst;
\* and a process with a strictly earlier arrival completes before one with
\* a later arrival.
C19_FcfsArrivalOrder ==
  (Returned /\ alg = "fcfs" /\ ValidInput(processes)) =>
    LET res == frame.ret.results
    IN /\ Len(res) = Len(processes)
       /\ Len(frame.timeline) = EndOf(res, Len(res))
       /\ \A k \in 1..Len(res) :
            LET r == res[k]
                time == EndOf(res, k - 1)
                start == Max(time, r.arrival)
            IN /\ k > 1 => ArrivalIdLeq(res[k - 1], r)
               /\ r.completion = start + r.burst
               /\ \A u \in (time + 1)..start : frame.timeline[u] = IDLE
               /\ \A u \in (start + 1)..r.completion :
                    frame.timeline[u] = r.pid
       /\ \A i, j \in 1..Len(res) :
            res[i].arrival < res[j].arrival =>
              res[i].completion < res[j].completion

\* fcfs has returned for a list given out of arrival order, with an idle
\* gap before a process that is not the first.
C19_Witness ==
  /\ Returned /\ alg = "fcfs" /\ ValidInput(processes)
  /\ Len(processes) >= 2
  /\ processes[1].arrival > processes[2].arrival
  /\ \E k \in 2..Len(frame.ret.results) :
       frame.ret.results[k].arrival > frame.ret.results[k - 1].completion

----------------------------------------------------------------------------
(* Termination: a call that can take a step takes one. *)

FairInputs == UNION {ListsOver(pl) : pl \in PagePidLists} \cup ScenarioInputs

\* Before the page has called the engine.
InitFair ==
  /\ alg = "fcfs"
  /\ processes = <<>>
  /\ frame = [NotCalled EXCEPT !.pc = "idle"]
  /\ NoCall2
  /\ page = NoPage

\* The page's simulate: it takes the list off the form and calls the engine
\* function of the page (of the selected mode).
Simulate ==
  /\ frame.pc = "idle"
  /\ alg' \in Algorithms
  /\ processes' \in FairInputs
  /\ frame' = NotCalled
  /\ UNCHANGED <<call2, page>>

NextFair == Simulate \/ Next

SpecFair == InitFair /\ [][NextFair]_vars /\ WF_vars(Next)

\* The results hold exactly one record for each process of ps, with a
\* completion time recorded.
OneRecordEach(ps, results) ==
  /\ Len(results) = Len(ps)
  /\ \A i \in 1..Len(ps) :
       /\ Cardinality({j \in 1..Len(results) : results[j].pid = ps[i].pid}) = 1
       /\ \E j \in 1..Len(results) :
            /\ results[j].pid = ps[i].pid
            /\ results[j].arrival = ps[i].arrival
            /\ results[j].burst = ps[i].burst
            /\ results[j].completion >= ps[i].arrival + ps[i].burst

\* C20: for every valid input each of the three algorithms terminates, the
\* results then hold exactly one record for every input process, each with
\* a completion time, and sjfNonPreemptive never takes its early exit.
C20_TerminatesWithAllRecords ==
  /\ ValidInput(processes) ~> Returned
  /\ [](ValidInput(processes) => frame.pc # "exit")
  /\ []((Returned /\ ValidInput(processes)) =>
          OneRecordEach(processes, frame.ret.results))

\* sjfNonPreemptive has returned for a list of three processes that needed
\* an idle jump.
C20_Witness ==
  /\ Returned /\ alg = "sjfNonPreemptive" /\ ValidInput(processes)
  /\ Len(processes) = 3
  /\ IDLE \in {frame.ret.timeline[u] : u \in 1..Len(frame.ret.timeline)}

----------------------------------------------------------------------------
(* The unit trace of a call: who has each time unit. *)

\* The processes of results that are eligible at time t: arrived and not
\* yet completed.
EligibleAt(results, t) ==
  {i \in 1..Len(results) :
     results[i].arrival <= t /\ t < results[i].completion}

\* C21: for each algorithm a time unit of the trace is IDLE if and only if
\* no process is eligible at that time (arrived and not yet completed), and
\* a unit of a process is never before its arrival.
C21_IdleIffNoneEligible ==
  (Returned /\ ValidInput(processes)) =>
    \A u \in 1..Len(frame.timeline) :
      LET eligible == EligibleAt(frame.ret.results, u - 1)
      IN /\ frame.timeline[u] = IDLE <=> eligible = {}
         /\ frame.timeline[u] # IDLE =>
              \E i \in eligible :
                frame.ret.results[i].pid = frame.timeline[u]

\* A call on several processes has returned with a trace that has an IDLE
\* unit after a process unit and a unit at which two processes were
\* eligible.
C21_Witness ==
  /\ Returned /\ ValidInput(processes) /\ Len(processes) >= 2
  /\ \E u \in 2..Len(frame.timeline) :
       frame.timeline[u] = IDLE /\ frame.timeline[u - 1] # IDLE
  /\ \E u \in 1..Len(frame.timeline) :
       Cardinality(EligibleAt(frame.ret.results, u - 1)) >= 2

\* C23: in the unit trace of every algorithm each process occupies exactly
\* burst units, all at time indices in [arrival, completion), the last at
\* index completion - 1, and every unit is IDLE or the id of an input
\* process.
C23_UnitsPerProcess ==
  (Returned /\ ValidInput(processes)) =>
    /\ \A i \in 1..Len(frame.ret.results) :
         LET r == frame.ret.results[i]
             units == UnitsOf(frame.timeline, r.pid)
         IN /\ Cardinality(units) = r.burst
            /\ \A u \in units : r.arrival <= u - 1 /\ u - 1 < r.completion
            /\ r.completion \in units
    /\ \A u \in 1..Len(frame.timeline) :
         \/ frame.timeline[u] = IDLE
         \/ \E i \in 1..Len(processes) :
              processes[i].pid = frame.timeline[u]

\* sjfPreemptive has returned with a process whose units are not
\* contiguous.
C23_Witness ==
  /\ Returned /\ ValidInput(processes) /\ alg = "sjfPreemptive"
  /\ \E i \in 1..Len(frame.ret.results) :
       LET r == frame.ret.results[i]
       IN /\ r.burst >= 2
          /\ \E u \in 1..r.completion :
               /\ frame.timeline[u] # r.pid
               /\ \E v \in UnitsOf(frame.timeline, r.pid) : v < u

----------------------------------------------------------------------------
(* The simulator pages: FCFSSimulator and SJFSimulator.  A cell of a row   *)
(* is the empty string, <<>>, or a number n, <<n>>; results and timeline   *)
(* are null, <<>>, or a value v, <<v>>.                                    *)

MaxRows == 6
MaxEditRow == 2

Blank == <<>>
Null == <<>>

NoError == [text |-> "", pid |-> <<>>]

digitValue ==
  [c \in {"0", "1", "2", "3", "4", "5", "6", "7", "8", "9"} |->
    CASE c = "0" -> 0 [] c = "1" -> 1 [] c = "2" -> 2 [] c = "3" -> 3
      [] c = "4" -> 4 [] c = "5" -> 5 [] c = "6" -> 6 [] c = "7" -> 7
      [] c = "8" -> 8 [] c = "9" -> 9]

digitChar == <<"0", "1", "2", "3", "4", "5", "6", "7", "8", "9">>

\* /^\d*$/.test(value)
onlyDigits(value) == \A k \in 1..Len(value) : value[k] \in DOMAIN digitValue

\* parseInt(value) of a non-empty string of digits.
parseInt(value) ==
  LET n[k \in 0..Len(value)] ==
        IF k = 0 THEN 0 ELSE 10 * n[k - 1] + digitValue[value[k]]
  IN n[Len(value)]

RECURSIVE toString(_)
\* The decimal digits of n, as a template literal writes them.
toString(n) ==
  IF n < 10 THEN <<digitChar[n + 1]>>
  ELSE toString(n \div 10) \o <<digitChar[(n % 10) + 1]>>

pidOf_One(n) == <<"P", "1">>

\* `P${n}`
pidOf(n) == <<"P">> \o toString(n)

\* pid.trim() is the empty string.
trimIsEmpty(pid) == \A k \in 1..Len(pid) : pid[k] = " "

getInitialProcesses ==
  <<[pid |-> <<"P", "1">>, arrival |-> Blank, burst |-> Blank],
    [pid |-> <<"P", "2">>, arrival |-> Blank, burst |-> Blank],
    [pid |-> <<"P", "3">>, arrival |-> Blank, burst |-> Blank],
    [pid |-> <<"P", "4">>, arrival |-> Blank, burst |-> Blank],
    [pid |-> <<"P", "5">>, arrival |-> Blank, burst |-> Blank]>>

\* What is typed into an arrival input and into a burst input.
TypedValues ==
  [arrival |-> {<<>>, <<"0">>, <<"0", "0">>, <<"5", "0", "1">>, <<"1", "a">>},
   burst |-> {<<>>, <<"0">>, <<"1">>, <<"0", "1">>, <<"x">>}]

PageKinds == {"fcfs", "sjf"}
Modes == {"preemptive", "nonPreemptive"}

\* The engine function the page's simulate calls.
engineOf(pg) ==
  IF pg.kind = "fcfs" THEN "fcfs"
  ELSE IF pg.mode = "nonPreemptive" THEN "sjfNonPreemptive"
  ELSE "sjfPreemptive"

\* updateField(i, field, value) for field "arrival" or "burst" (the pid
\* input is readOnly and has no onChange).
updateField(pg, i, field, value) ==
  LET cleared == [pg EXCEPT !.error = NoError]
      cell == IF Len(value) = 0 THEN Blank ELSE <<parseInt(value)>>
  IN IF ~onlyDigits(value) THEN cleared
     ELSE IF field = "arrival"
          THEN [cleared EXCEPT !.rows[i].arrival = cell]
          ELSE [cleared EXCEPT !.rows[i].burst = cell]

addProcess(pg) ==
  [pg EXCEPT
     !.rows = Append(pg.rows, [pid |-> pidOf(Len(pg.rows) + 1),
                               arrival |-> Blank, burst |-> Blank]),
     !.results = Null,
     !.timeline = Null]

\* copy.splice(i, 1), then the renumbering.
removeProcess(pg, i) ==
  LET copy == SubSeq(pg.rows, 1, i - 1) \o SubSeq(pg.rows, i + 1, Len(pg.rows))
      renumbered == [index \in 1..Len(copy) |->
                       [copy[index] EXCEPT !.pid = pidOf(index)]]
  IN [pg EXCEPT !.rows = renumbered, !.results = Null, !.timeline = Null,
                !.error = NoError]

resetProcesses(pg) ==
  [pg EXCEPT !.rows = getInitialProcesses, !.results = Null,
             !.timeline = Null, !.error = NoError]

setMode(pg, mode) == [pg EXCEPT !.mode = mode]

\* The loop "for (const p of processes)" of simulate: the first error, or
\* the valid processes.  A cell holds "" or a number, so Number(cell) of a
\* non-blank cell is the number and isNaN is false.
validate(rows) ==
  LET v[i \in 0..Len(rows)] ==
        IF i = 0 THEN [error |-> NoError, validProcesses |-> <<>>]
        ELSE LET prev == v[i - 1]
                 p == rows[i]
             IN IF prev.error # NoError THEN prev
                ELSE IF trimIsEmpty(p.pid)
                THEN [prev EXCEPT !.error = [text |-> "PID cannot be empty for any process.", pid |-> <<>>]]
                ELSE IF p.arrival = Blank /\ p.burst = Blank THEN prev
                ELSE IF p.arrival = Blank \/ p.burst = Blank
                THEN [prev EXCEPT !.error = [text |-> "Arrival Time and Burst Time must both be filled.", pid |-> p.pid]]
                ELSE IF p.arrival[1] < 0 \/ p.burst[1] <= 0
                THEN [prev EXCEPT !.error = [text |-> "Arrival Time must be >= 0 and Burst Time must be >= 1.", pid |-> p.pid]]
                ELSE IF p.arrival[1] > MAX_TIME_UNIT \/ p.burst[1] > MAX_TIME_UNIT
                THEN [prev EXCEPT !.error = [text |-> "Value too large.", pid |-> p.pid]]
                ELSE [prev EXCEPT !.validProcesses =
                        Append(@, [pid |-> p.pid, arrival |-> p.arrival[1],
                                   burst |-> p.burst[1]])]
  IN v[Len(rows)]

\* The list simulate passes to the engine: the SJF page sorts it by arrival
\* first.
argumentOf(pg, validProcesses) ==
  IF pg.kind = "sjf" THEN sort(validProcesses, "arrivalCompare")
  ELSE validProcesses

simulateCheck_NoEmptyCheck(pg) ==
  LET cleared == [pg EXCEPT !.error = NoError, !.results = Null,
                            !.timeline = Null]
      v == validate(pg.rows)
  IN IF v.error # NoError
     THEN [called |-> FALSE, page |-> [cleared EXCEPT !.error = v.error],
           arg |-> <<>>]
     ELSE [called |-> TRUE, page |-> cleared,
           arg |-> argumentOf(pg, v.validProcesses)]

simulateCheck_KeepResults(pg) ==
  LET cleared == [pg EXCEPT !.error = NoError]
      v == validate(pg.rows)
  IN IF v.error # NoError
     THEN [called |-> FALSE, page |-> [cleared EXCEPT !.error = v.error],
           arg |-> <<>>]
     ELSE IF Len(v.validProcesses) = 0
     THEN [called |-> FALSE,
           page |-> [cleared EXCEPT !.error = [text |-> "Please define at least one process.", pid |-> <<>>]],
           arg |-> <<>>]
     ELSE [called |-> TRUE, page |-> cleared,
           arg |-> argumentOf(pg, v.validProcesses)]

\* simulate up to the call of the engine: the page with the error set, or
\* the argument of the call.
simulateCheck(pg) ==
  LET cleared == [pg EXCEPT !.error = NoError, !.results = Null,
                            !.timeline = Null]
      v == validate(pg.rows)
  IN IF v.error # NoError
     THEN [called |-> FALSE, page |-> [cleared EXCEPT !.error = v.error],
           arg |-> <<>>]
     ELSE IF Len(v.validProcesses) = 0
     THEN [called |-> FALSE,
           page |-> [cleared EXCEPT !.error = [text |-> "Please define at least one process.", pid |-> <<>>]],
           arg |-> <<>>]
     ELSE [called |-> TRUE, page |-> cleared,
           arg |-> argumentOf(pg, v.validProcesses)]

\* simulate after the engine has returned out.
simulateShow(pg, out) ==
  [pg EXCEPT !.results = <<sort(out.results, "pidCompare")>>,
             !.timeline = <<out.timeline>>]

\* The page after simulate.
simulate(pg) ==
  LET c == simulateCheck(pg)
  IN IF c.called
     THEN simulateShow(c.page, RunFrom(engineOf(pg), Enter(engineOf(pg), c.arg)))
     ELSE c.page

\* A handler that does not call the engine leaves no call behind.
NoEngineCall ==
  /\ alg' = engineOf(page')
  /\ processes' = <<>>
  /\ frame' = NotCalled

InitPage ==
  /\ page \in {[NoPage EXCEPT !.kind = k, !.rows = getInitialProcesses] :
                 k \in PageKinds}
  /\ alg = engineOf(page)
  /\ processes = <<>>
  /\ frame = NotCalled
  /\ NoCall2

PageUpdateField ==
  /\ \E i \in 1..Len(page.rows), field \in {"arrival", "burst"} :
       /\ i <= MaxEditRow
       /\ \E value \in TypedValues[field] :
            page' = updateField(page, i, field, value)
  /\ NoEngineCall
  /\ UNCHANGED call2

PageAddProcess ==
  /\ Len(page.rows) < MaxRows
  /\ page' = addProcess(page)
  /\ NoEngineCall
  /\ UNCHANGED call2

PageRemoveProcess ==
  /\ \E i \in 1..Len(page.rows) : page' = removeProcess(page, i)
  /\ NoEngineCall
  /\ UNCHANGED call2

PageResetProcesses ==
  /\ page' = resetProcesses(page)
  /\ NoEngineCall
  /\ UNCHANGED call2

PageSetMode ==
  /\ page.kind = "sjf"
  /\ \E mode \in Modes : page' = setMode(page, mode)
  /\ NoEngineCall
  /\ UNCHANGED call2

\* simulate: when the rows pass its checks, it calls the engine, which runs
\* to its return.
PageSimulate ==
  /\ LET c == simulateCheck(page)
     IN IF c.called
        THEN /\ alg' = engineOf(page)
             /\ processes' = c.arg
             /\ frame' = FinalFrame(engineOf(page), Enter(engineOf(page), c.arg))
             /\ page' = simulateShow(c.page, frame'.ret)
        ELSE /\ page' = c.page
             /\ NoEngineCall
  /\ UNCHANGED call2

NextPage ==
  \/ PageUpdateField \/ PageAddProcess \/ PageRemoveProcess
  \/ PageResetProcesses \/ PageSetMode \/ PageSimulate

SpecPage == InitPage /\ [][NextPage]_vars

----------------------------------------------------------------------------
(* Properties of the simulator pages. *)

\* The rows that are not skipped: arrival and burst are not both blank.
KeptRows(rows) ==
  SelectSeq(rows, LAMBDA p : ~(p.arrival = Blank /\ p.burst = Blank))

\* The kept rows meet the preconditions of the engine.
RowsMeetPreconditions(rows) ==
  LET kept == KeptRows(rows)
  IN /\ Len(kept) >= 1
     /\ \A k \in 1..Len(kept) :
          /\ Len(kept[k].pid) > 0
          /\ kept[k].arrival # Blank /\ kept[k].burst # Blank
          /\ kept[k].arrival \in {<<n>> : n \in 0..MAX_TIME_UNIT}
          /\ kept[k].burst \in {<<n>> : n \in 1..MAX_TIME_UNIT}
     /\ \A k, l \in 1..Len(kept) : k # l => kept[k].pid # kept[l].pid

\* C22: simulate calls the engine only with a list that meets the engine's
\* preconditions, and with the kept rows; for rows that do not meet them it
\* sets an error message and does not call the engine.
C22_SimulateCallsWithValidInput ==
  /\ [](frame.pc = "returned" => ValidInput(processes))
  /\ [][PageSimulate =>
          IF RowsMeetPreconditions(page.rows)
          THEN /\ frame'.pc = "returned"
               /\ page'.error = NoError
               /\ {processes'[k] : k \in 1..Len(processes')}
                    = {[pid |-> p.pid, arrival |-> p.arrival[1],
                        burst |-> p.burst[1]] :
                         p \in {KeptRows(page.rows)[k] :
                                  k \in 1..Len(KeptRows(page.rows))}}
          ELSE /\ frame' = NotCalled
               /\ page'.error # NoError
               /\ page'.results = Null]_vars

\* simulate has called the engine with two processes, having skipped the
\* blank rows.
C22_Witness ==
  /\ page.kind = "sjf" /\ frame.pc = "returned"
  /\ Len(processes) = 2 /\ Len(page.rows) > 2
  /\ page.results # Null

\* "P" followed by n, for the first ten rows.
ExpectedPid ==
  <<<<"P", "1">>, <<"P", "2">>, <<"P", "3">>, <<"P", "4">>, <<"P", "5">>,
    <<"P", "6">>, <<"P", "7">>, <<"P", "8">>, <<"P", "9">>,
    <<"P", "1", "0">>>>

\* C24: after any sequence of addProcess, removeProcess, resetProcesses and
\* arrival or burst edits from the initial five rows, the i-th row has pid
\* "P" followed by i; the pids are non-empty and pairwise distinct.
C24_RowsNumberedInOrder ==
  page.kind \in PageKinds =>
    /\ \A i \in 1..Len(page.rows) :
         /\ page.rows[i].pid = ExpectedPid[i]
         /\ Len(page.rows[i].pid) > 0
    /\ \A i, j \in 1..Len(page.rows) :
         i # j => page.rows[i].pid # page.rows[j].pid

\* Rows have been removed and one has been added: there are more than five
\* rows and the values typed into the first row are still there.
C24_Witness ==
  /\ page.kind \in PageKinds /\ Len(page.rows) > 5
  /\ page.rows[1].arrival # Blank /\ page.rows[1].burst # Blank

\* C25: results is non-null exactly when timeline is non-null, and whenever
\* the error message is non-empty both are null.
C25_ErrorExcludesResults ==
  page.kind \in PageKinds =>
    /\ page.results = Null <=> page.timeline = Null
    /\ page.error # NoError =>
         page.results = Null /\ page.timeline = Null

\* A simulate has failed on rows of which the first is valid and the second
\* is half filled.
C25_Witness ==
  /\ page.kind \in PageKinds /\ page.error # NoError
  /\ Len(page.rows) >= 2
  /\ page.rows[1].arrival = <<0>> /\ page.rows[1].burst = <<1>>
  /\ page.rows[2].arrival = Blank /\ page.rows[2].burst # Blank

\* C26: whenever results is non-null it is the engine's output for the
\* current rows and, on the SJF page, the current mode.
C26_ResultsMatchRows ==
  (page.kind \in PageKinds /\ page.results # Null) =>
    /\ simulate(page).results = page.results
    /\ simulate(page).timeline = page.timeline

====
